---- MODULE Spec2Model ----
(***************************************************************************)
(* Model of midas.util.AsyncioModbusClient (src/midas/util.py): one client *)
(* with its lock and connect task, a set of concurrent callers running     *)
(* read_registers / write_registers, and the pymodbus transport the        *)
(* client drives (connect, request, close).                                *)
(***************************************************************************)
EXTENDS Integers, Sequences, FiniteSets, TLC

\* ------------------------------------------------------------- bounds
NumCallers == 2
MaxClose == 2
MaxCount == 500
MaxWriteLen == 130

\* ------------------------------------------------- program constants
\* read_registers: "while count > 124" / "count=124"
MaxChunk == 124

Callers == 1 .. NumCallers

\* pymodbus.__version__[0] and [2], as the constructor reads them
Versions == {<<2, 5>>, <<3, 0>>, <<3, 2>>, <<3, 3>>}

\* the address handed to the constructor
Ips == {"192.168.1.10"}

\* the arguments of the callers of the concurrent specification: a read of two
\* chunks, and a write across the boundary between them
ReadArgs == {<<0, MaxChunk + 1>>}
WriteArgs == {<<MaxChunk - 1, <<5, 6>>>>}

\* the arguments of the single call of SpecSingle
StartAddrs == {0, 7}
WriteValues(n) == [i \in 1 .. n |-> 9]

\* exceptions the transport can raise out of a request
TransportErrors == {"TimeoutError", "ConnectionException", "AttributeError", "ModbusIOException"}

VARIABLES
    version,       \* <<major, minor>> digits of pymodbus.__version__
    ip,            \* self.ip
    connectTask,   \* self.connectTask: "pending", "running", "ok", "failed"
    lock,          \* self.lock: whether it is locked, and by which task
    waiters,       \* self.lock waiters, in arrival order
    link,          \* the transport is connected
    connectCalls,  \* calls of the transport's connect primitive
    closeCalls,    \* calls of _close
    closeRaised,   \* some _close call raised
    outstanding,   \* requests in progress at the transport
    mem,           \* device registers written so far (address -> value)
    frame,         \* each caller's coroutine frame
    scope,         \* the "async with" block the client is used in, if any
    cancelling     \* callers whose cancellation has yet to reach their frame

vars == <<cancelling, scope, version, ip, connectTask, lock, waiters, link, connectCalls, closeCalls,
          closeRaised, outstanding, mem, frame>>

\* ------------------------------------------------------ the lock
\* asyncio.Lock's _locked flag, with the task that holds it
Free == [locked |-> FALSE, task |-> "none", caller |-> 0]
HeldByConnect == [locked |-> TRUE, task |-> "connect", caller |-> 0]
HeldBy(c) == [locked |-> TRUE, task |-> "request", caller |-> c]

\* ------------------------------------------------------ __init__ flags
pymodbus30plus == version[1] = 3
pymodbus32plus == pymodbus30plus /\ version[2] >= 2
\* a faulty variant of pymodbus33plus: the plain close() is taken to start one minor later
pymodbus33plusLate == pymodbus30plus /\ version[2] >= 4

pymodbus33plus == pymodbus30plus /\ version[2] >= 3

\* ------------------------------------------------------ device values
\* what a device that was never written answers for register a
Default(a) == (7 * a + 1) % 65536

RegValue(a) == IF a \in DOMAIN mem THEN mem[a] ELSE Default(a)

\* r.registers of a read_holding_registers(address=a, count=n) response
ReadResponse(a, n) == [i \in 1 .. n |-> RegValue(a + i - 1)]

\* device registers after write_registers(address=a, values=v)
WriteEffect(a, v) ==
    [x \in DOMAIN mem \cup {a + i - 1 : i \in 1 .. Len(v)} |->
        IF x >= a /\ x < a + Len(v) THEN v[x - a + 1] ELSE mem[x]]

\* ------------------------------------------------------ frames
NoOutcome == [kind |-> "none", value |-> <<>>, error |-> <<>>]

IdleFrame ==
    [pc |-> "idle", method |-> "none", address |-> 0, count |-> 0, values |-> <<>>,
     registers |-> <<>>, reqs |-> <<>>, args |-> <<>>, exc |-> "none",
     outcome |-> NoOutcome]

\* the frame of a caller that has just entered read_registers(address, count)
ReadFrame(a, n) ==
    [IdleFrame EXCEPT !.pc = "awaitConnect", !.method = "read_holding_registers",
                      !.address = a, !.count = n, !.args = <<a, n>>]

\* the frame of a caller that has just entered write_registers(address, values)
WriteFrame(a, v) ==
    [IdleFrame EXCEPT !.pc = "awaitConnect", !.method = "write_registers",
                      !.address = a, !.values = v, !.args = <<a, Len(v)>>]

\* ------------------------------------------------------ errors
ConnectionError == <<"OSError", "Could not connect to", ip>>
RequestTimeoutError == <<"TimeoutError", "Not connected to Midas.">>
\* what asyncio raises in a cancelled task, and in whoever awaits a cancelled task
CancelledError == <<"CancelledError">>

\* a faulty variant of Translate: AttributeError is missing from the except clause
TranslateNoAttributeError(e) ==
    IF e \in {"TimeoutError", "ConnectionException"}
    THEN <<"TimeoutError", "Not connected to Midas.">>
    ELSE <<e>>

\* _request's except clause
Translate(e) ==
    IF e \in {"TimeoutError", "ConnectionException", "AttributeError"}
    THEN RequestTimeoutError
    ELSE <<e>>

\* the frame of a call that ends by raising err
Raised(f, err) ==
    [f EXCEPT !.pc = "done", !.registers = <<>>,
              !.outcome = [kind |-> "raise", value |-> <<>>, error |-> err]]

\* the frame of a call whose _request caught or let pass exception e in its try block
Caught(f, e) == Raised([f EXCEPT !.exc = e], Translate(e))

\* the count the next _request of read_registers carries
ChunkCount(n) == IF n > MaxChunk THEN MaxChunk ELSE n

\* a faulty variant of Request: a write is cut to the per-message limit like a read
RequestChunkedWrite(c, f) ==
    [caller |-> c, method |-> f.method, address |-> f.address,
     count |-> IF f.method = "write_registers" THEN ChunkCount(Len(f.values))
               ELSE ChunkCount(f.count),
     values |-> SubSeq(f.values, 1, ChunkCount(Len(f.values)))]

\* the request frame f sends next
Request(c, f) ==
    [caller |-> c, method |-> f.method, address |-> f.address,
     count |-> IF f.method = "write_registers" THEN Len(f.values) ELSE ChunkCount(f.count),
     values |-> f.values]

\* the client is not used in an "async with" block
NoScope == [pc |-> "none", raised |-> <<>>, propagated |-> <<>>]

Init ==
    /\ version \in Versions
    /\ ip \in Ips
    /\ connectTask = "pending"
    /\ lock = Free
    /\ waiters = <<>>
    /\ link = FALSE
    /\ connectCalls = 0
    /\ closeCalls = 0
    /\ closeRaised = FALSE
    /\ outstanding = {}
    /\ mem = <<>>
    /\ frame = [c \in Callers |-> IdleFrame]
    /\ scope = NoScope
    /\ cancelling = {}

\* ------------------------------------------------------ _connect
\* the connect task starts running: takes the lock, calls the transport's connect
ConnectStart ==
    /\ connectTask = "pending"
    /\ lock = Free /\ waiters = <<>>
    /\ lock' = HeldByConnect
    /\ connectTask' = "running"
    /\ connectCalls' = connectCalls + 1
    /\ UNCHANGED <<cancelling, scope, version, ip, waiters, link, closeCalls, closeRaised, outstanding,
                   mem, frame>>

\* the transport's connect returns (connected or not); the lock is released
ConnectReturn(up) ==
    /\ connectTask = "running"
    /\ lock = HeldByConnect
    /\ lock' = Free
    /\ connectTask' = "ok"
    /\ link' = up
    /\ UNCHANGED <<cancelling, scope, version, ip, waiters, connectCalls, closeCalls, closeRaised,
                   outstanding, mem, frame>>

\* the transport's connect raises: OSError from the task, lock released
ConnectRaise ==
    /\ connectTask = "running"
    /\ lock = HeldByConnect
    /\ lock' = Free
    /\ connectTask' = "failed"
    /\ UNCHANGED <<cancelling, scope, version, ip, waiters, link, connectCalls, closeCalls, closeRaised,
                   outstanding, mem, frame>>

\* wait_for's deadline passes and the cancelled connect() ends (3.x only):
\* OSError from the task, lock released. Nothing obliges this step to happen.
ConnectTimeout ==
    /\ pymodbus30plus
    /\ connectTask = "running"
    /\ lock = HeldByConnect
    /\ lock' = Free
    /\ connectTask' = "failed"
    /\ UNCHANGED <<cancelling, scope, version, ip, waiters, link, connectCalls, closeCalls, closeRaised,
                   outstanding, mem, frame>>

\* ------------------------------------------------------ callers
ReadRegisters(c, a, n) ==
    /\ frame[c].pc = "idle"
    /\ frame' = [frame EXCEPT ![c] = ReadFrame(a, n)]
    /\ UNCHANGED <<cancelling, scope, version, ip, connectTask, lock, waiters, link, connectCalls,
                   closeCalls, closeRaised, outstanding, mem>>

WriteRegisters(c, a, v) ==
    /\ frame[c].pc = "idle"
    /\ frame' = [frame EXCEPT ![c] = WriteFrame(a, v)]
    /\ UNCHANGED <<cancelling, scope, version, ip, connectTask, lock, waiters, link, connectCalls,
                   closeCalls, closeRaised, outstanding, mem>>

\* _request with the lock taken: the getattr and the call of the transport method,
\* out being the requests at the transport. Before 3.2 the method is looked up on
\* self.client.protocol, which is None while the transport is not connected:
\* AttributeError, translated, and the lock released.
Send(c, f, out) ==
    IF ~pymodbus32plus /\ ~link
    THEN /\ lock' = Free
         /\ outstanding' = out
         /\ frame' = [frame EXCEPT ![c] = Caught(f, "AttributeError")]
    ELSE /\ lock' = HeldBy(c)
         /\ outstanding' = out \cup {Request(c, f)}
         /\ frame' = [frame EXCEPT ![c] = [f EXCEPT !.pc = "inflight",
                                                    !.reqs = Append(@, Request(c, f))]]

\* a faulty variant of Enter: the request is sent without taking the lock's turn
EnterNoLock(c, f, lk, out) ==
    /\ waiters' = waiters
    /\ Send(c, f, out)

\* _request at "async with self.lock", the lock being lk: a free lock nobody waits
\* for is taken at once, otherwise the caller joins the waiters
Enter(c, f, lk, out) ==
    IF ~lk.locked /\ waiters = <<>>
    THEN /\ waiters' = waiters
         /\ Send(c, f, out)
    ELSE /\ waiters' = Append(waiters, c)
         /\ lock' = lk
         /\ outstanding' = out
         /\ frame' = [frame EXCEPT ![c] = [f EXCEPT !.pc = "lockWait"]]

\* a faulty variant of AwaitConnect: _request does not await the connect task
AwaitConnectNoWait(c) ==
    /\ frame[c].pc = "awaitConnect"
    /\ IF connectTask = "failed"
       THEN /\ frame' = [frame EXCEPT ![c] = Raised(@, ConnectionError)]
            /\ UNCHANGED <<lock, waiters, outstanding>>
       ELSE Enter(c, frame[c], lock, outstanding)
    /\ UNCHANGED <<cancelling, scope, version, ip, connectTask, link, connectCalls, closeCalls,
                   closeRaised, mem>>

\* a faulty variant of AwaitConnect: a failed connect task is started again by the next request
AwaitConnectRetry(c) ==
    /\ frame[c].pc = "awaitConnect"
    /\ connectTask \in {"ok", "failed"}
    /\ IF connectTask = "failed"
       THEN /\ connectTask' = "pending"
            /\ UNCHANGED <<lock, waiters, outstanding, frame>>
       ELSE /\ connectTask' = connectTask
            /\ Enter(c, frame[c], lock, outstanding)
    /\ UNCHANGED <<cancelling, scope, version, ip, link, connectCalls, closeCalls, closeRaised, mem>>

\* a faulty variant of AwaitConnect: the failure of the connect task is not re-raised
AwaitConnectIgnoreFailure(c) ==
    /\ frame[c].pc = "awaitConnect"
    /\ connectTask \in {"ok", "failed"}
    /\ Enter(c, frame[c], lock, outstanding)
    /\ UNCHANGED <<cancelling, scope, version, ip, connectTask, link, connectCalls, closeCalls,
                   closeRaised, mem>>

\* a faulty variant of AwaitConnect: _request takes the lock before it awaits the connect task
AwaitConnectLockFirst(c) ==
    /\ frame[c].pc = "awaitConnect"
    /\ IF connectTask \in {"pending", "running"}
       THEN /\ lock = Free
            /\ lock' = HeldBy(c)
            /\ UNCHANGED <<waiters, outstanding, frame>>
       ELSE IF connectTask = "failed"
       THEN /\ frame' = [frame EXCEPT ![c] = Raised(@, ConnectionError)]
            /\ UNCHANGED <<lock, waiters, outstanding>>
       ELSE Enter(c, frame[c], lock, outstanding)
    /\ UNCHANGED <<cancelling, scope, version, ip, connectTask, link, connectCalls, closeCalls,
                   closeRaised, mem>>

\* _request: "await self.connectTask" resumes once the task has resolved: the
\* task's exception, or the CancelledError of a cancelled task, is raised here
AwaitConnect(c) ==
    /\ frame[c].pc = "awaitConnect"
    /\ connectTask \in {"ok", "failed", "cancelled"}
    /\ IF connectTask = "failed"
       THEN /\ frame' = [frame EXCEPT ![c] = Raised(@, ConnectionError)]
            /\ UNCHANGED <<lock, waiters, outstanding>>
       ELSE IF connectTask = "cancelled"
       THEN /\ frame' = [frame EXCEPT ![c] =
                           Raised(IF c \in cancelling THEN [@ EXCEPT !.exc = "cancelled"] ELSE @,
                                  CancelledError)]
            /\ UNCHANGED <<lock, waiters, outstanding>>
       ELSE Enter(c, frame[c], lock, outstanding)
    /\ cancelling' = cancelling \ {c}
    /\ UNCHANGED <<scope, version, ip, connectTask, link, connectCalls, closeCalls,
                   closeRaised, mem>>

\* the first waiter of a released lock takes it
LockWake(c) ==
    /\ frame[c].pc = "lockWait"
    /\ ~lock.locked
    /\ waiters # <<>> /\ Head(waiters) = c
    /\ waiters' = Tail(waiters)
    /\ Send(c, frame[c], outstanding)
    /\ UNCHANGED <<cancelling, scope, version, ip, connectTask, link, connectCalls, closeCalls,
                   closeRaised, mem>>

\* a faulty variant of AfterResponse: the loop test is "count >= 124"
AfterResponseLoopsAtLimit(f, r) ==
    IF f.method = "write_registers"
    THEN [f EXCEPT !.pc = "done",
                   !.outcome = [kind |-> "return", value |-> <<>>, error |-> <<>>]]
    ELSE IF f.count >= MaxChunk
    THEN [f EXCEPT !.pc = "awaitConnect", !.registers = @ \o r,
                   !.address = @ + MaxChunk, !.count = @ - MaxChunk]
    ELSE [f EXCEPT !.pc = "done", !.registers = @ \o r,
                   !.outcome = [kind |-> "return", value |-> f.registers \o r,
                                error |-> <<>>]]

\* a faulty variant of AfterResponse: the loop does not advance the address
AfterResponseSameAddress(f, r) ==
    IF f.method = "write_registers"
    THEN [f EXCEPT !.pc = "done",
                   !.outcome = [kind |-> "return", value |-> <<>>, error |-> <<>>]]
    ELSE IF f.count > MaxChunk
    THEN [f EXCEPT !.pc = "awaitConnect", !.registers = @ \o r,
                   !.count = @ - MaxChunk]
    ELSE [f EXCEPT !.pc = "done", !.registers = @ \o r,
                   !.outcome = [kind |-> "return", value |-> f.registers \o r,
                                error |-> <<>>]]

\* read_registers / write_registers after _request has returned registers r
AfterResponse(f, r) ==
    IF f.method = "write_registers"
    THEN [f EXCEPT !.pc = "done",
                   !.outcome = [kind |-> "return", value |-> <<>>, error |-> <<>>]]
    ELSE IF f.count > MaxChunk
    THEN [f EXCEPT !.pc = "awaitConnect", !.registers = @ \o r,
                   !.address = @ + MaxChunk, !.count = @ - MaxChunk]
    ELSE [f EXCEPT !.pc = "done", !.registers = @ \o r,
                   !.outcome = [kind |-> "return", value |-> f.registers \o r,
                                error |-> <<>>]]

\* the awaited transport call returns its response: _request returns, releasing
\* the lock, and read_registers goes on to its next _request. The code does not
\* look at the link here: a response delivered before _close ran is still
\* consumed after it, and the next chunk then meets the closed transport.
TransportReturn(c) ==
    /\ frame[c].pc = "inflight"
    /\ LET q == Request(c, frame[c])
           r == IF q.method = "write_registers" THEN <<>>
                ELSE ReadResponse(q.address, q.count)
           f == AfterResponse(frame[c], r)
       IN /\ mem' = IF q.method = "write_registers"
                    THEN WriteEffect(q.address, q.values) ELSE mem
          /\ IF f.pc = "awaitConnect"
             THEN Enter(c, f, Free, outstanding \ {q})
             ELSE /\ lock' = Free
                  /\ waiters' = waiters
                  /\ outstanding' = outstanding \ {q}
                  /\ frame' = [frame EXCEPT ![c] = f]
    /\ UNCHANGED <<cancelling, scope, version, ip, connectTask, link, connectCalls, closeCalls,
                   closeRaised>>

\* a faulty variant of TransportRaise: the lock is released in the except clause only, so an
\* exception that is not translated leaves it held
TransportRaiseKeepLock(c, e) ==
    /\ frame[c].pc = "inflight"
    /\ lock' = IF Translate(e) = RequestTimeoutError THEN Free ELSE lock
    /\ outstanding' = outstanding \ {Request(c, frame[c])}
    /\ frame' = [frame EXCEPT ![c] = Caught(@, e)]
    /\ UNCHANGED <<cancelling, scope, version, ip, connectTask, waiters, link, connectCalls, closeCalls,
                   closeRaised, mem>>

\* how many times the call of frame f has entered _request so far
Invocations(f) ==
    IF f.method = "read_holding_registers"
    THEN (f.address - f.args[1]) \div MaxChunk + 1
    ELSE 1

\* a faulty variant of TransportRaise: a request that failed is sent once more
TransportRaiseRetry(c, e) ==
    /\ frame[c].pc = "inflight"
    /\ IF Len(frame[c].reqs) = Invocations(frame[c])
       THEN /\ frame' = [frame EXCEPT ![c].reqs = Append(@, Request(c, frame[c]))]
            /\ UNCHANGED <<lock, outstanding>>
       ELSE /\ lock' = Free
            /\ outstanding' = outstanding \ {Request(c, frame[c])}
            /\ frame' = [frame EXCEPT ![c] = Caught(@, e)]
    /\ UNCHANGED <<cancelling, scope, version, ip, connectTask, waiters, link, connectCalls, closeCalls,
                   closeRaised, mem>>

\* a faulty variant of TransportRaise: a read that fails after its first chunk returns the
\* registers read so far
TransportRaisePartialResult(c, e) ==
    /\ frame[c].pc = "inflight"
    /\ lock' = Free
    /\ outstanding' = outstanding \ {Request(c, frame[c])}
    /\ LET f == frame[c]
       IN frame' = [frame EXCEPT ![c] =
                       IF f.registers # <<>>
                       THEN [f EXCEPT !.pc = "done", !.exc = e,
                                      !.outcome = [kind |-> "return", value |-> f.registers,
                                                   error |-> <<>>]]
                       ELSE Caught(f, e)]
    /\ UNCHANGED <<cancelling, scope, version, ip, connectTask, waiters, link, connectCalls, closeCalls,
                   closeRaised, mem>>

\* a faulty variant of TransportRaise: a translated failure marks the connection as failed
TransportRaiseMarksFailed(c, e) ==
    /\ frame[c].pc = "inflight"
    /\ lock' = Free
    /\ outstanding' = outstanding \ {Request(c, frame[c])}
    /\ frame' = [frame EXCEPT ![c] = Caught(@, e)]
    /\ connectTask' = IF Translate(e) = RequestTimeoutError THEN "failed" ELSE connectTask
    /\ UNCHANGED <<cancelling, scope, version, ip, waiters, link, connectCalls, closeCalls,
                   closeRaised, mem>>

\* the transport call raises e: _request translates it and releases the lock
TransportRaise(c, e) ==
    /\ frame[c].pc = "inflight"
    /\ lock' = Free
    /\ outstanding' = outstanding \ {Request(c, frame[c])}
    /\ frame' = [frame EXCEPT ![c] = Caught(@, e)]
    /\ UNCHANGED <<cancelling, scope, version, ip, connectTask, waiters, link, connectCalls, closeCalls,
                   closeRaised, mem>>

\* the caller has its result or error and is ready for another call
Return(c) ==
    /\ frame[c].pc = "done"
    /\ frame' = [frame EXCEPT ![c] = IdleFrame]
    /\ UNCHANGED <<cancelling, scope, version, ip, connectTask, lock, waiters, link, connectCalls,
                   closeCalls, closeRaised, outstanding, mem>>

\* ------------------------------------------------------ _close
\* the transport's API by generation, as _close's branches name it:
\* 2.4.x - 2.5.x has stop(), 3.0.x - 3.2.x an awaitable close(), 3.3.x a plain close()
HasStop == version[1] = 2
HasClose == version[1] = 3
CloseIsCoroutine == version[1] = 3 /\ version[2] <= 2

\* whether _close raises: a missing attribute, or awaiting a plain call's None
CloseRaises ==
    IF pymodbus33plus THEN ~HasClose
    ELSE IF pymodbus30plus THEN ~(HasClose /\ CloseIsCoroutine)
    ELSE ~HasStop

\* whether _close releases the link: an un-awaited coroutine does nothing
CloseReleases ==
    IF pymodbus33plus THEN HasClose /\ ~CloseIsCoroutine
    ELSE IF pymodbus30plus THEN HasClose
    ELSE HasStop

\* what one call of _close does
CloseEffect ==
    /\ closeCalls' = closeCalls + 1
    /\ closeRaised' = (closeRaised \/ CloseRaises)
    /\ link' = IF CloseReleases THEN FALSE ELSE link

\* a faulty variant of Close: _close waits for the lock like a request
CloseTakesLock ==
    /\ closeCalls < MaxClose
    /\ lock = Free /\ waiters = <<>>
    /\ CloseEffect
    /\ UNCHANGED <<cancelling, scope, version, ip, connectTask, lock, waiters, connectCalls, outstanding,
                   mem, frame>>

\* __aexit__ or the owner calls _close: no lock, no await of the connect task
Close ==
    /\ closeCalls < MaxClose
    /\ CloseEffect
    /\ UNCHANGED <<cancelling, scope, version, ip, connectTask, lock, waiters, connectCalls, outstanding,
                   mem, frame>>

Next ==
    \/ ConnectStart
    \/ \E up \in BOOLEAN : ConnectReturn(up)
    \/ ConnectRaise
    \/ ConnectTimeout
    \/ \E c \in Callers : \E a \in ReadArgs : ReadRegisters(c, a[1], a[2])
    \/ \E c \in Callers : \E a \in WriteArgs : WriteRegisters(c, a[1], a[2])
    \/ \E c \in Callers : AwaitConnect(c)
    \/ \E c \in Callers : LockWake(c)
    \/ \E c \in Callers : TransportReturn(c)
    \/ \E c \in Callers : \E e \in TransportErrors : TransportRaise(c, e)
    \/ \E c \in Callers : Return(c)
    \/ Close

Spec == Init /\ [][Next]_vars

\* ------------------------------------------------------ scheduling
\* the transport's connect ends: it returns, raises or (3.x) hits the deadline
ConnectEnds ==
    \/ \E up \in BOOLEAN : ConnectReturn(up)
    \/ ConnectRaise
    \/ ConnectTimeout

\* the transport answers or fails the request of caller c
TransportEnds(c) ==
    \/ TransportReturn(c)
    \/ \E e \in TransportErrors : TransportRaise(c, e)

\* the event loop runs every task that is ready (the connect task, a caller whose
\* awaited task has resolved, the first waiter of a free lock), and the transport
\* ends every connect and every request
Fairness ==
    /\ WF_vars(ConnectStart)
    /\ WF_vars(ConnectEnds)
    /\ \A c \in Callers : WF_vars(AwaitConnect(c))
    /\ \A c \in Callers : WF_vars(LockWake(c))
    /\ \A c \in Callers : WF_vars(TransportEnds(c))

SpecLive == Init /\ [][Next]_vars /\ Fairness

\* the event loop alone: it runs every task that is ready (the connect task, a
\* caller whose awaited task has resolved); the transport's connect is under no
\* obligation to end
LoopFairness ==
    /\ WF_vars(ConnectStart)
    /\ \A c \in Callers : WF_vars(AwaitConnect(c))

\* an assumption on the caller and the transport, not something _connect
\* provides: the deadline of asyncio.wait_for ends the connect task. It does so
\* only when self.timeout is a finite number (None never expires) and the
\* transport's connect() gives way to the cancellation wait_for sends it at the
\* deadline, since wait_for waits for the cancelled call to finish before it
\* raises. On 2.x there is no wait_for and ConnectTimeout is never enabled, so
\* the assumption says nothing there.
DeadlineHonoured == WF_vars(ConnectTimeout)

\* a fair event loop and, where _connect sets a deadline, a deadline that works
SpecDeadline == Init /\ [][Next]_vars /\ LoopFairness /\ DeadlineHonoured

\* ------------------------------------------------------ one call, connected
\* a client whose connect task has succeeded, before any call
InitSingle ==
    /\ version \in Versions
    /\ ip \in Ips
    /\ connectTask = "ok"
    /\ lock = Free
    /\ waiters = <<>>
    /\ link = TRUE
    /\ connectCalls = 1
    /\ closeCalls = 0
    /\ closeRaised = FALSE
    /\ outstanding = {}
    /\ mem = <<>>
    /\ frame = [c \in Callers |-> IdleFrame]
    /\ scope = NoScope
    /\ cancelling = {}

\* one caller makes one call, and the transport answers every request
NextSingle ==
    \/ \E a \in StartAddrs : \E n \in 1 .. MaxCount : ReadRegisters(1, a, n)
    \/ \E a \in StartAddrs : \E n \in 0 .. MaxWriteLen :
           WriteRegisters(1, a, WriteValues(n))
    \/ AwaitConnect(1)
    \/ TransportReturn(1)

SpecSingle == InitSingle /\ [][NextSingle]_vars

\* ------------------------------------------------------ cancellation
\* w without caller c
WithoutCaller(w, c) == SelectSeq(w, LAMBDA x : x # c)

\* what cancel() of a caller suspended on "await self.connectTask" can do to an
\* unresolved connect task. The cancellation is passed on to the awaited task:
\* a task that has not started never runs, and a running _connect gets
\* CancelledError at its await, which "except Exception" does not catch. On 3.x
\* that await is asyncio.wait_for(self.client.connect(), ...): when connect()
\* has already finished and the task has not resumed yet, wait_for (up to
\* Python 3.11) returns the result and drops the cancellation, so the task
\* resolves as if nobody had been cancelled, and the caller goes on.
CancelOutcomes ==
    IF pymodbus30plus /\ connectTask = "running"
    THEN {"cancelled", "swallowed"}
    ELSE {"cancelled"}

\* the task of caller c is cancelled while it is suspended in _request (by its
\* owner, or by an asyncio.wait_for around the call whose deadline passed).
\* Suspended on "await self.connectTask" with the task unresolved or cancelled,
\* the connect task ends cancelled (leaving "async with self.lock") unless the
\* cancellation is swallowed, and the caller itself is resumed later, like every
\* other caller awaiting the task. Otherwise CancelledError is raised in the
\* caller's frame: suspended on the lock it leaves the queue of waiters,
\* suspended on the transport call it leaves "async with self.lock", which
\* releases the lock.
Cancel(c) ==
    /\ frame[c].pc \in {"awaitConnect", "lockWait", "inflight"}
    /\ c \notin cancelling
    /\ IF frame[c].pc = "awaitConnect" /\ connectTask \in {"pending", "running", "cancelled"}
       THEN \E o \in CancelOutcomes :
               /\ cancelling' = IF o = "swallowed" THEN cancelling ELSE cancelling \cup {c}
               /\ connectTask' = IF o = "swallowed" THEN connectTask ELSE "cancelled"
               /\ lock' = IF o = "cancelled" /\ connectTask = "running" THEN Free ELSE lock
               /\ UNCHANGED <<waiters, outstanding, frame>>
       ELSE /\ cancelling' = cancelling
            /\ connectTask' = connectTask
            /\ lock' = IF frame[c].pc = "inflight" THEN Free ELSE lock
            /\ waiters' = WithoutCaller(waiters, c)
            /\ outstanding' = IF frame[c].pc = "inflight"
                              THEN outstanding \ {Request(c, frame[c])}
                              ELSE outstanding
            /\ frame' = [frame EXCEPT ![c] =
                            Raised([@ EXCEPT !.exc = "cancelled"], CancelledError)]
    /\ UNCHANGED <<scope, version, ip, link, connectCalls, closeCalls, closeRaised, mem>>

NextCancel ==
    \/ Next
    \/ \E c \in Callers : Cancel(c)

SpecCancel == Init /\ [][NextCancel]_vars

\* ------------------------------------------------------ async with
\* the exceptions user code raises inside the block
UserErrors == {<<"UserError">>}

\* __aenter__: returns self
ScopeEnter ==
    /\ scope.pc = "outside"
    /\ scope' = [scope EXCEPT !.pc = "body"]
    /\ UNCHANGED <<cancelling, version, ip, connectTask, lock, waiters, link, connectCalls,
                   closeCalls, closeRaised, outstanding, mem, frame>>

\* whether the transport's close() gives control back to the event loop before
\* it returns. Only 3.0.x - 3.2.x awaits it ("await self.client.close()"), and
\* whether that coroutine suspends is the transport's business: both outcomes
\* are possible. 2.x's stop() and 3.3+'s close() are plain calls.
CloseSuspendOutcomes ==
    IF pymodbus30plus /\ ~pymodbus33plus THEN {TRUE, FALSE} ELSE {FALSE}

\* the scope once __aexit__ has been entered with exc: suspended in the awaited
\* close(), exc still held by the frame of __aexit__'s caller, or left with exc
\* gone on to the caller
ScopeAfterClose(exc, suspended) ==
    IF suspended
    THEN [pc |-> "closing", raised |-> exc, propagated |-> <<>>]
    ELSE [pc |-> "exited", raised |-> exc, propagated |-> exc]

\* a faulty variant of AExit: the transport is closed on a normal exit only
AExitClosesOnSuccessOnly(exc) ==
    /\ IF exc = <<>> THEN CloseEffect ELSE UNCHANGED <<closeCalls, closeRaised, link>>
    /\ \E s \in CloseSuspendOutcomes : scope' = ScopeAfterClose(exc, s)

\* __aexit__ as the block is left with exception exc (<<>> for none), up to the
\* point where it returns or first suspends: it calls _close, which calls the
\* transport's close; where that call is awaited and suspends, the block's task
\* stops there with the link already shut, else __aexit__ returns None and exc
\* goes on to the caller
AExit(exc) ==
    /\ CloseEffect
    /\ \E s \in CloseSuspendOutcomes : scope' = ScopeAfterClose(exc, s)

\* the block ends, normally (exc = <<>>) or by an exception of the user's code
ScopeLeave(exc) ==
    /\ scope.pc = "body"
    /\ frame[1].pc = "idle"
    /\ AExit(exc)
    /\ UNCHANGED <<cancelling, version, ip, connectTask, lock, waiters, connectCalls,
                   outstanding, mem, frame>>

\* the error of a read or write made in the block leaves the block
ScopeLeaveOnCallError ==
    /\ scope.pc = "body"
    /\ frame[1].pc = "done"
    /\ frame[1].outcome.kind = "raise"
    /\ AExit(frame[1].outcome.error)
    /\ frame' = [frame EXCEPT ![1] = IdleFrame]
    /\ UNCHANGED <<cancelling, version, ip, connectTask, lock, waiters, connectCalls,
                   outstanding, mem>>

\* the awaited close() resumes: _close and __aexit__ return None and the
\* exception the block was left with goes on to the caller
AExitResume ==
    /\ scope.pc = "closing"
    /\ scope' = [scope EXCEPT !.pc = "exited", !.propagated = scope.raised]
    /\ UNCHANGED <<cancelling, version, ip, connectTask, lock, waiters, link, connectCalls,
                   closeCalls, closeRaised, outstanding, mem, frame>>

\* a client constructed by an "async with" statement, before __aenter__
InitScope ==
    /\ version \in Versions
    /\ ip \in Ips
    /\ connectTask = "pending"
    /\ lock = Free
    /\ waiters = <<>>
    /\ link = FALSE
    /\ connectCalls = 0
    /\ closeCalls = 0
    /\ closeRaised = FALSE
    /\ outstanding = {}
    /\ mem = <<>>
    /\ frame = [c \in Callers |-> IdleFrame]
    /\ scope = [pc |-> "outside", raised |-> <<>>, propagated |-> <<>>]
    /\ cancelling = {}

\* the block's task uses the client; the connect task and the transport run on,
\* also while the block's task is suspended in __aexit__
NextScope ==
    \/ ScopeEnter
    \/ \E exc \in {<<>>} \cup UserErrors : ScopeLeave(exc)
    \/ ScopeLeaveOnCallError
    \/ AExitResume
    \/ ConnectStart
    \/ \E up \in BOOLEAN : ConnectReturn(up)
    \/ ConnectRaise
    \/ ConnectTimeout
    \/ \E a \in ReadArgs : scope.pc = "body" /\ ReadRegisters(1, a[1], a[2])
    \/ \E a \in WriteArgs : scope.pc = "body" /\ WriteRegisters(1, a[1], a[2])
    \/ AwaitConnect(1)
    \/ TransportReturn(1)
    \/ \E e \in TransportErrors : TransportRaise(1, e)
    \/ Return(1)

SpecScope == InitScope /\ [][NextScope]_vars

TypeOK ==
    /\ connectTask \in {"pending", "running", "ok", "failed", "cancelled"}
    /\ lock \in {Free, HeldByConnect} \cup {HeldBy(c) : c \in Callers}
    /\ link \in BOOLEAN
    /\ \A c \in Callers : frame[c].pc \in {"idle", "awaitConnect", "lockWait",
                                            "inflight", "done"}
    /\ scope.pc \in {"none", "outside", "body", "closing", "exited"}
    /\ cancelling \subseteq Callers

\* ------------------------------------------------------ properties

\* C1: at most one request is outstanding at the transport, and the caller it
\* belongs to holds the client's lock; a caller whose request is in flight is the
\* only one past the lock.
AtMostOneRequestInFlight ==
    /\ Cardinality(outstanding) <= 1
    /\ \A q \in outstanding : lock = HeldBy(q.caller) /\ frame[q.caller].pc = "inflight"
    /\ \A c \in Callers : frame[c].pc = "inflight" =>
          outstanding = {Request(c, frame[c])}

\* C1 witness: the second chunk of one caller's read is at the transport while
\* another caller waits for the lock
WitnessOneInFlightOneWaiting ==
    \E c, d \in Callers :
        /\ c # d
        /\ frame[c].pc = "inflight" /\ Len(frame[c].reqs) = 2
        /\ frame[d].pc = "lockWait"
        /\ Cardinality(outstanding) = 1

\* C2: while the connect task has not resolved no request has been dispatched:
\* every caller is idle or suspended on the task, nothing is at the transport,
\* and the transport's connect is never in progress together with a request.
NoRequestBeforeConnectResolves ==
    /\ connectTask \in {"pending", "running"} =>
          /\ outstanding = {}
          /\ \A c \in Callers : /\ frame[c].pc \in {"idle", "awaitConnect"}
                                /\ frame[c].reqs = <<>>
    /\ ~(connectTask = "running" /\ outstanding # {})

\* C2 witness: every caller is suspended on the connect task while the transport's
\* connect is in progress
WitnessCallersSuspendedOnConnect ==
    /\ connectTask = "running"
    /\ lock = HeldByConnect
    /\ \A c \in Callers : frame[c].pc = "awaitConnect"

\* C3: the transport's connect is called at most once, by the task made at
\* construction: never before that task runs, exactly once from then on, whatever
\* the callers and close do afterwards.
ConnectAttemptedOnce ==
    /\ connectCalls <= 1
    /\ (connectTask = "pending") = (connectCalls = 0)

\* C3 witness: the one attempt failed, callers have awaited the failed task and
\* close has run, and connect was still called once
WitnessFailedConnectNotRetried ==
    /\ connectTask = "failed"
    /\ connectCalls = 1
    /\ closeCalls >= 1
    /\ \A c \in Callers : frame[c].pc = "done"

\* once the connect task has failed, every call that ends raises
\* OSError "Could not connect to '<address>'", not the request timeout, having
\* sent nothing; nobody holds or waits for the lock and nothing is at the transport.
FailedConnectRaisesConnectionError ==
    connectTask = "failed" =>
        /\ ~lock.locked
        /\ waiters = <<>>
        /\ outstanding = {}
        /\ \A c \in Callers :
              /\ frame[c].pc \in {"idle", "awaitConnect", "done"}
              /\ frame[c].reqs = <<>>
              /\ frame[c].pc = "done" =>
                    /\ frame[c].outcome.kind = "raise"
                    /\ frame[c].outcome.error = <<"OSError", "Could not connect to", ip>>
                    /\ frame[c].outcome.error # <<"TimeoutError", "Not connected to Midas.">>

\* after the failed connect every caller, not only one, has the connection error
WitnessEveryCallerGetsConnectionError ==
    /\ connectTask = "failed"
    /\ \A c \in Callers :
          /\ frame[c].pc = "done"
          /\ frame[c].outcome.error = <<"OSError", "Could not connect to", ip>>

\* C4: a connect attempt that does not finish within the configured timeout
\* fails like one that raises, so no call stays suspended on the connect task for
\* ever, granted that a deadline set by _connect does expire; and once the connect task has failed every
\* call raises the connection error, not the request timeout, without the lock
\* and without a request.
FailedOrLateConnectRaisesConnectionError ==
    /\ []FailedConnectRaisesConnectionError
    /\ \A c \in Callers :
          (frame[c].pc = "awaitConnect") ~> (frame[c].pc # "awaitConnect")

\* C5: the lock is held only while the connect or a transport exchange is in
\* progress: by the connect task while it runs, by a caller while its request is
\* at the transport; a caller that has its outcome, whatever it is, holds nothing.
LockHeldOnlyDuringExchange ==
    /\ lock.locked =>
          \/ lock = HeldByConnect /\ connectTask = "running"
          \/ \E c \in Callers : lock = HeldBy(c) /\ frame[c].pc = "inflight"
    /\ connectTask \in {"ok", "failed"} => lock # HeldByConnect
    /\ \A c \in Callers : frame[c].pc = "done" => lock # HeldBy(c)

\* C5 witness: a request ended with an exception that is not translated, and the
\* lock is free
WitnessLockFreeAfterUntranslatedError ==
    \E c \in Callers :
        /\ frame[c].pc = "done"
        /\ frame[c].exc = "ModbusIOException"
        /\ frame[c].outcome.kind = "raise"
        /\ ~lock.locked

\* C6: a call whose request met exception e in _request raises
\* TimeoutError "Not connected to Midas." when e is a timeout, a connection
\* exception or a failed attribute lookup, and e itself otherwise; a call that
\* raises raises one of these or the connect task's error.
RequestErrorsTranslated ==
    \A c \in Callers :
        (frame[c].pc = "done" /\ frame[c].outcome.kind = "raise") =>
            /\ frame[c].exc \in {"TimeoutError", "ConnectionException", "AttributeError"} =>
                  frame[c].outcome.error = <<"TimeoutError", "Not connected to Midas.">>
            /\ frame[c].exc \in TransportErrors
                                \ {"TimeoutError", "ConnectionException", "AttributeError"} =>
                  frame[c].outcome.error = <<frame[c].exc>>
            /\ frame[c].exc = "none" =>
                  /\ connectTask = "failed"
                  /\ frame[c].outcome.error = <<"OSError", "Could not connect to", ip>>

\* C6 witness: one caller's lookup of the absent handle became the request
\* timeout with nothing sent, another caller's transport error came through as is
WitnessTranslatedAndUntranslated ==
    \E c, d \in Callers :
        /\ frame[c].pc = "done" /\ frame[c].exc = "AttributeError"
        /\ frame[c].reqs = <<>>
        /\ frame[c].outcome.error = <<"TimeoutError", "Not connected to Midas.">>
        /\ frame[d].pc = "done" /\ frame[d].exc = "ModbusIOException"
        /\ frame[d].outcome.error = <<"ModbusIOException">>
\* the (address, count) pairs of a sequence of requests
Pairs(reqs) == [k \in 1 .. Len(reqs) |-> <<reqs[k].address, reqs[k].count>>]

RECURSIVE SumCounts(_)
SumCounts(pairs) ==
    IF pairs = <<>> THEN 0 ELSE pairs[1][2] + SumCounts(Tail(pairs))

\* the number of requests a read of n registers is to take, and the k-th of them
ChunksOf(n) == (n + 123) \div 124
ChunkOf(a, n, k) == <<a + 124 * (k - 1), IF k < ChunksOf(n) THEN 124 ELSE n - 124 * (ChunksOf(n) - 1)>>

\* C7: the requests of read_registers(address, count) are, in order,
\* (address + 124k, 124) for k = 0, 1, ... and a last one with the remainder, each of
\* 1 to 124 registers, summing to count; a request goes out only when all the
\* earlier ones have returned; 300 at 0 gives (0,124) (124,124) (248,52) and 100
\* at 0 gives (0,100).
ReadChunkDecomposition ==
    \A c \in Callers :
        frame[c].method = "read_holding_registers" =>
            LET a == frame[c].args[1]
                n == frame[c].args[2]
                sent == Pairs(frame[c].reqs)
            IN /\ Len(sent) <= ChunksOf(n)
               /\ \A k \in 1 .. Len(sent) :
                     sent[k] = ChunkOf(a, n, k) /\ sent[k][2] >= 1 /\ sent[k][2] <= 124
               /\ frame[c].pc = "inflight" =>
                     /\ Len(frame[c].registers) = SumCounts(SubSeq(sent, 1, Len(sent) - 1))
                     /\ Cardinality(outstanding) = 1
               /\ frame[c].pc = "done" =>
                     /\ Len(sent) = ChunksOf(n)
                     /\ SumCounts(sent) = n
                     /\ outstanding = {}
               /\ (frame[c].pc = "done" /\ a = 0 /\ n = 300) =>
                     sent = << <<0, 124>>, <<124, 124>>, <<248, 52>> >>
               /\ (frame[c].pc = "done" /\ a = 0 /\ n = 100) =>
                     sent = << <<0, 100>> >>

\* C7 witness: read_registers(0, 300) has returned after three requests
WitnessRead300InThreeChunks ==
    \E c \in Callers :
        /\ frame[c].pc = "done"
        /\ frame[c].method = "read_holding_registers"
        /\ frame[c].args = <<0, 300>>
        /\ Len(frame[c].reqs) = 3

\* C8: read_registers(address, count) returns count values, the i-th being the
\* value of register address + i - 1, wherever the chunks are cut.
ReadReturnsRegistersInOrder ==
    \A c \in Callers :
        (frame[c].pc = "done" /\ frame[c].method = "read_holding_registers") =>
            LET a == frame[c].args[1]
                n == frame[c].args[2]
            IN /\ frame[c].outcome.kind = "return"
               /\ Len(frame[c].outcome.value) = n
               /\ frame[c].outcome.value = [i \in 1 .. n |-> Default(a + i - 1)]

\* C8 witness: a read of an exact multiple of 124 from a non-zero address has
\* returned all its values
WitnessReadOfExactMultiple ==
    \E c \in Callers :
        /\ frame[c].pc = "done"
        /\ frame[c].method = "read_holding_registers"
        /\ frame[c].args = <<7, 372>>
        /\ Len(frame[c].outcome.value) = 372

\* C9: write_registers(address, values) sends one request, with the address and
\* all the values, whatever their number, and returns nothing.
WriteIsOneRequest ==
    \A c \in Callers :
        frame[c].method = "write_registers" =>
            /\ Len(frame[c].reqs) <= 1
            /\ frame[c].pc \in {"inflight", "done"} =>
                  /\ Len(frame[c].reqs) = 1
                  /\ frame[c].reqs[1].method = "write_registers"
                  /\ frame[c].reqs[1].address = frame[c].args[1]
                  /\ Len(frame[c].reqs[1].values) = frame[c].args[2]
                  /\ frame[c].reqs[1].values = WriteValues(frame[c].args[2])
            /\ frame[c].pc = "done" =>
                  /\ frame[c].outcome.kind = "return"
                  /\ frame[c].outcome.value = <<>>
                  /\ \A x \in 1 .. frame[c].args[2] :
                        RegValue(frame[c].args[1] + x - 1) = WriteValues(frame[c].args[2])[x]

\* C9 witness: a write of more than 124 values has returned after one request
WitnessWriteAboveLimit ==
    \E c \in Callers :
        /\ frame[c].pc = "done"
        /\ frame[c].method = "write_registers"
        /\ Len(frame[c].reqs) = 1
        /\ Len(frame[c].reqs[1].values) > 124

\* C10: no call of close raises, however many there are and whatever the state
\* of the connect task when they are made.
CloseNeverRaises == closeRaised = FALSE

\* C10 witness: close has run twice while the connect attempt was still pending
WitnessClosedTwiceWhileConnecting ==
    /\ closeCalls >= 2
    /\ connectTask = "running"
    /\ ~closeRaised
\* C11: entering the block never waits (it is possible whatever the state of the
\* connect task), _close has not run while the block is running, and once the
\* block is left - normally, by an exception of the user's code or by the error of
\* a read or write - _close has run exactly once and that exception has gone on
\* to the caller. Where __aexit__ is suspended in the transport's awaited
\* close(), _close has been called exactly once already, the exception has gone
\* nowhere else, and __aexit__ can always resume.
ScopeClosesExactlyOnce ==
    /\ scope.pc = "outside" => (closeCalls = 0 /\ ENABLED ScopeEnter)
    /\ scope.pc = "body" => closeCalls = 0
    /\ scope.pc = "closing" =>
           (closeCalls = 1 /\ scope.propagated = <<>> /\ ENABLED AExitResume)
    /\ scope.pc = "exited" => (closeCalls = 1 /\ scope.propagated = scope.raised)

\* C11 witness: a read or write in the block raised the request timeout, the
\* block was left, _close ran once and the error reached the caller
WitnessScopeLeftOnRequestTimeout ==
    /\ scope.pc = "exited"
    /\ scope.raised = <<"TimeoutError", "Not connected to Midas.">>
    /\ scope.propagated = <<"TimeoutError", "Not connected to Midas.">>
    /\ closeCalls = 1
\* C12 as stated: every entry of _request made after the connect task succeeded
\* has dispatched exactly one call to the transport by the time the call ends.
ExactlyOneDispatchAfterConnect ==
    \A c \in Callers :
        (frame[c].pc = "done" /\ frame[c].outcome.error # ConnectionError) =>
            Len(frame[c].reqs) = Invocations(frame[c])

\* C12: no retry in this layer. Every entry of _request dispatches at most one
\* call to the transport: exactly one once the connect task has succeeded and the
\* transport method was found, none when the connect task failed or when the
\* lookup of the method raised AttributeError (before 3.2, client.protocol being
\* None). A failed call ends the read or write: nothing is sent twice and the
\* transport's connect is called at most once.
NoRetryAtMostOneDispatch ==
    /\ connectCalls <= 1
    /\ \A c \in Callers :
        LET f == frame[c] IN
        /\ \A i, j \in 1 .. Len(f.reqs) : i # j => f.reqs[i] # f.reqs[j]
        /\ f.pc = "idle" => f.reqs = <<>>
        /\ f.pc \in {"awaitConnect", "lockWait"} => Len(f.reqs) = Invocations(f) - 1
        /\ f.pc = "inflight" => Len(f.reqs) = Invocations(f)
        /\ (f.pc = "done" /\ f.outcome.kind = "return") => Len(f.reqs) = Invocations(f)
        /\ (f.pc = "done" /\ f.outcome.error = ConnectionError) => f.reqs = <<>>
        /\ (f.pc = "done" /\ f.outcome.kind = "raise" /\ f.outcome.error # ConnectionError) =>
              IF f.exc = "AttributeError" /\ ~pymodbus32plus
              THEN Len(f.reqs) \in {Invocations(f) - 1, Invocations(f)}
              ELSE Len(f.reqs) = Invocations(f)

\* C12 witness: the second chunk of a read found no transport method (the link was
\* closed after the first chunk): the read ended with one request dispatched for
\* two entries of _request
WitnessSecondChunkNotDispatched ==
    \E c \in Callers :
        /\ frame[c].pc = "done"
        /\ frame[c].exc = "AttributeError"
        /\ frame[c].outcome.error = RequestTimeoutError
        /\ Invocations(frame[c]) = 2
        /\ Len(frame[c].reqs) = 1
        /\ connectTask = "ok"
\* C13: once _close has run the transport link is released and stays released,
\* whatever the connect task was doing when _close was called.
LinkStaysReleasedAfterClose == closeCalls >= 1 => ~link
\* the registers a .. a+n-1 of a device on which exactly the write w (address,
\* values) has taken effect, or no write at all
RegistersAfter(written, w, a, n) ==
    [i \in 1 .. n |->
        LET x == a + i - 1 IN
        IF written /\ x >= w[1] /\ x < w[1] + Len(w[2])
        THEN w[2][x - w[1] + 1]
        ELSE Default(x)]

\* C14: a read of more than 124 registers that runs while other callers write
\* returns the registers as they were at one instant: every write has taken
\* effect on all of the returned registers or on none of them.
ChunkedReadIsOneSnapshot ==
    \A c \in Callers :
        LET f == frame[c] IN
        (f.pc = "done" /\ f.method = "read_holding_registers" /\ f.outcome.kind = "return") =>
            \E w \in WriteArgs, written \in BOOLEAN :
                f.outcome.value = RegistersAfter(written, w, f.args[1], f.args[2])
\* C15: a caller cancelled while it waits for the connect task or for the lock
\* does not affect the others: the connect task is not cancelled with it, only
\* the cancelled caller itself ends with CancelledError, the lock is held only by
\* the running connect task or by the caller whose request is at the transport,
\* and every request at the transport still has its caller waiting for it.
CancelledWaiterAffectsNoOther ==
    /\ connectTask # "cancelled"
    /\ \A c \in Callers :
          (frame[c].pc = "done" /\ frame[c].outcome.error = CancelledError) =>
              frame[c].exc = "cancelled"
    /\ lock.locked =>
          IF lock = HeldByConnect THEN connectTask = "running"
          ELSE frame[lock.caller].pc = "inflight"
    /\ \A q \in outstanding : frame[q.caller].pc = "inflight"
\* C16: under a fair event loop and a transport that ends every connect and every
\* request, every call of read_registers or write_registers that has started
\* eventually returns or raises, and a held lock is eventually free.
EveryCallEnds ==
    /\ \A c \in Callers :
          (frame[c].pc \in {"awaitConnect", "lockWait", "inflight"}) ~> (frame[c].pc = "done")
    /\ lock.locked ~> ~lock.locked

\* C16 witness: a read in two chunks has returned while another caller, queued on
\* the lock behind it, is about to be woken
WitnessReadDoneWaiterNext ==
    \E c, d \in Callers :
        /\ c # d
        /\ frame[c].pc = "done" /\ frame[c].outcome.kind = "return" /\ Len(frame[c].reqs) = 2
        /\ frame[d].pc = "lockWait"
        /\ waiters = <<d>>
        /\ lock = Free
\* C17: a read whose request for some chunk failed raises that chunk's error,
\* translated or not: it returns nothing, the registers of the chunks read before
\* are dropped, and no request was dispatched for any later chunk.
FailedChunkEndsRead ==
    \A c \in Callers :
        LET f == frame[c] IN
        (f.pc = "done" /\ f.method = "read_holding_registers" /\ f.exc # "none") =>
            /\ f.outcome.kind = "raise"
            /\ f.outcome.error = Translate(f.exc)
            /\ f.outcome.value = <<>>
            /\ f.registers = <<>>
            /\ Len(f.reqs) <= Invocations(f)
            /\ \A i \in 1 .. Len(f.reqs) : f.reqs[i].address <= f.address
            /\ \A q \in outstanding : q.caller # c

\* C17 witness: the second chunk of a read failed with an exception that is not
\* translated, after the first chunk had been read
WitnessSecondChunkFailed ==
    \E c \in Callers :
        /\ frame[c].pc = "done"
        /\ frame[c].method = "read_holding_registers"
        /\ frame[c].exc = "ModbusIOException"
        /\ frame[c].outcome.error = <<"ModbusIOException">>
        /\ Len(frame[c].reqs) = 2
        /\ frame[c].count = 1
\* C18: _close takes part in no synchronization. It can run in every state,
\* whatever the lock, the connect task and the callers are doing, and the step
\* that runs it leaves the lock, its waiters, the connect task, the requests at
\* the transport and every caller's frame as they were.
CloseIsUnsynchronized ==
    /\ [](closeCalls < MaxClose => ENABLED Close)
    /\ [][closeCalls' # closeCalls =>
            UNCHANGED <<lock, waiters, connectTask, outstanding, frame>>]_vars

\* C18 witness: _close has run while one caller's request was at the transport
\* and another caller waited for the lock (before 3.2 a request is only sent over
\* a link that is up, so the link went down after the request was sent)
WitnessClosedUnderOutstandingRequest ==
    \E c, d \in Callers :
        /\ c # d
        /\ ~pymodbus32plus
        /\ closeCalls = 1
        /\ ~link
        /\ frame[c].pc = "inflight" /\ lock = HeldBy(c)
        /\ outstanding # {}
        /\ frame[d].pc = "lockWait"
\* caller c's call ends in this step with the exception of a request
RequestFails(c) ==
    /\ frame[c].pc # "done"
    /\ frame'[c].pc = "done"
    /\ frame'[c].exc # "none"

\* caller c, suspended before its request is sent, moves in this step
RequestMoves(c) ==
    /\ frame[c].pc \in {"awaitConnect", "lockWait"}
    /\ frame'[c] # frame[c]

\* C19 as stated: while the failed call of one caller is there to see, the
\* request of every other caller that moves on is dispatched to the transport
\* (or queues for the lock on its way there).
LaterRequestAlwaysDispatched ==
    [][\A c, d \in Callers :
          (c # d /\ frame[d].pc = "done" /\ frame[d].exc # "none" /\ RequestMoves(c)) =>
              frame'[c].pc \in {"lockWait", "inflight"}]_vars

\* C19: a failed request leaves the coordination state as it was. The step in
\* which a call raises the request timeout or an untranslated exception finds and
\* leaves the connect task succeeded, leaves the lock free and the link and the
\* number of connect attempts unchanged; a succeeded connect task stays succeeded;
\* and every request that moves on afterwards goes to the lock and the transport
\* and never raises the connection error: it is dispatched, or, before 3.2 with
\* the link down, it ends with the translated AttributeError of the method lookup.
FailedRequestKeepsCoordination ==
    /\ [][\A c \in Callers : RequestFails(c) =>
              /\ connectTask = "ok" /\ connectTask' = "ok"
              /\ lock' = Free
              /\ UNCHANGED <<link, connectCalls, mem>>]_vars
    /\ [][connectTask = "ok" => connectTask' = "ok"]_vars
    /\ [][\A c \in Callers : (connectTask = "ok" /\ RequestMoves(c)) =>
              \/ frame'[c].pc \in {"lockWait", "inflight"}
              \/ /\ ~pymodbus32plus /\ ~link
                 /\ frame'[c].pc = "done"
                 /\ frame'[c].exc = "AttributeError"
                 /\ frame'[c].outcome.error = RequestTimeoutError]_vars

\* C19 witness: one caller's call has ended with the request timeout, and the
\* other caller's request, sent after it, holds the lock and is at the transport
WitnessDispatchedAfterFailure ==
    \E c, d \in Callers :
        /\ c # d
        /\ frame[d].pc = "done" /\ frame[d].exc = "TimeoutError"
        /\ frame[d].outcome.error = RequestTimeoutError
        /\ connectTask = "ok"
        /\ frame[c].pc = "inflight" /\ lock = HeldBy(c)
        /\ outstanding = {Request(c, frame[c])}
====
